---- MODULE Spec2Model ----
(***************************************************************************)
(* A model of the two pieces of logic of the solarpunk story bot that are  *)
(* not pass-through to a vendor SDK:                                       *)
(*   - the character-limit finalization at the end of                      *)
(*     StoryGenerator.generate_story (src/src/story_generator.py), and     *)
(*   - the two retry loops, GeminiProClient.retry_with_backoff             *)
(*     (src/src/api/gemini.py) and ImageGenerator.generate_image           *)
(*     (src/src/image_generator.py).                                       *)
(* Text is a sequence of one-character strings; Python's 0-based indices   *)
(* and slice semantics are kept.                                           *)
(***************************************************************************)
EXTENDS Integers, Sequences, FiniteSets, TLC

\* ------------------------------------------------------------------ bounds

\* Longest generated text drawn from the alphabet.
MaxLen == 4
\* Largest character limit (max_chars) drawn.
MaxLimit == 3
\* StoryParameters accepts any int: limits down to -MaxNegLimit are drawn.
MaxNegLimit == 1
\* retry_with_backoff is called with max_retries in 0..MaxRetries,
\* initial_delay in 0..MaxDelay and backoff_factor in 1..MaxFactor.
MaxRetries == 3
MaxDelay == 2
MaxFactor == 2
MaxConcRetries == 2
MaxTime == 3
MaxRequests == 2
MaxWindow == 2
MaxImageRetries == 4
MaxAdmitted == 4
MaxBotCalls == 3
MaxPreviewCalls == 3

\* ----------------------------------------------------------------- helpers

Min(S) == CHOOSE x \in S : \A y \in S : x <= y
Max(S) == CHOOSE x \in S : \A y \in S : x >= y

\* A letter, a whitespace character and the three sentence-ending marks.
Alphabet == {"a", " ", ".", "!", "?"}

Texts == UNION {[1..n -> Alphabet] : n \in 0..MaxLen}

\* The two example texts of the specification's testable properties.
SolarExample ==
    << "S","o","l","a","r"," ","p","a","n","e","l","s"," ","h","u","m","m","e","d","."," ",
       "M","a","y","a"," ","s","m","i","l","e","d"," ","w","i","d","e" >>

NoPunctExample ==
    << "N","o"," ","p","u","n","c","t","u","a","t","i","o","n"," ",
       "h","e","r","e"," ","a","t"," ","a","l","l" >>

ExampleTexts == {SolarExample, NoPunctExample}
ExampleLimits == {10, 20}

\* X (Twitter) character limit, the default of StoryParameters.max_chars
X_FREE_CHAR_LIMIT == 280

Limits == ((0 - MaxNegLimit)..MaxLimit) \cup ExampleLimits \cup {X_FREE_CHAR_LIMIT}

\* ------------------------------------------------- Python string primitives

\* s[:n]
PySlice(s, n) ==
    LET k == IF n >= 0 THEN (IF n < Len(s) THEN n ELSE Len(s))
                       ELSE (IF Len(s) + n > 0 THEN Len(s) + n ELSE 0)
    IN  SubSeq(s, 1, k)

\* s.rfind(ch): the highest 0-based index of ch, or -1
rfind(s, ch) ==
    LET I == {i \in 1..Len(s) : s[i] = ch}
    IN  IF I = {} THEN -1 ELSE Max(I) - 1

\* s.find(ch): the lowest 0-based index of ch, or -1
find(s, ch) ==
    LET I == {i \in 1..Len(s) : s[i] = ch}
    IN  IF I = {} THEN -1 ELSE Min(I) - 1

\* s.strip()
strip(s) ==
    LET I == {i \in 1..Len(s) : s[i] # " "}
    IN  IF I = {} THEN << >> ELSE SubSeq(s, Min(I), Max(I))

\* ------------------------------------- generate_story: the finalization step

\* len(story) > params.max_chars
ExceedsLimit_OrEqual(s, limit) == Len(s) >= limit
ExceedsLimit(s, limit) == Len(s) > limit

\* story[:params.max_chars], the window the marks are searched in
Window(s, limit) == PySlice(s, limit)

\* story[:params.max_chars].rfind('.')
LastPeriodIndex_First(s, limit) == find(Window(s, limit), ".")
LastPeriodIndex(s, limit) == rfind(Window(s, limit), ".")

\* story[:last_period_index + 1] and story[:last_punct_index + 1]
CutAfter_OneMore(s, idx) == PySlice(s, idx + 2)
CutAfter(s, idx) == PySlice(s, idx + 1)

\* if last_period_index > 0, if last_punct_index > 0: index 0 counts as not found
Found_AtZero(idx) == idx >= 0
Found(idx) == idx > 0

\* for punct in ['!', '?']
PunctOrder_Reversed == << "?", "!" >>
PunctOrder == << "!", "?" >>

\* story[:params.max_chars]
HardCut_OneLess(s, limit) == PySlice(s, limit - 1)
HardCut_OneMore(s, limit) == PySlice(s, limit + 1)
HardCut(s, limit) == PySlice(s, limit)

\* The for ... else loop over the other sentence-ending marks: the first mark
\* of PunctOrder whose last occurrence in the window is at an index > 0 wins
\* (break); when none does, the else clause truncates.
PunctLoop(s, limit) ==
    LET hits == {k \in 1..Len(PunctOrder) :
                     Found(rfind(Window(s, limit), PunctOrder[k]))}
    IN  IF hits # {}
        THEN [text |-> CutAfter(s, rfind(Window(s, limit), PunctOrder[Min(hits)])),
              branch |-> "punct"]
        ELSE [text |-> HardCut(s, limit), branch |-> "hard"]

\* if len(story) > max_chars: ... ; branch names the path taken through it
FinalizeText(s, limit) ==
    IF ExceedsLimit(s, limit)
    THEN IF Found(LastPeriodIndex(s, limit))
         THEN [text |-> CutAfter(s, LastPeriodIndex(s, limit)), branch |-> "period"]
         ELSE PunctLoop(s, limit)
    ELSE [text |-> s, branch |-> "unchanged"]

\* ---------------------------------------------- the two retry loops: steps

\* The retrying calls in flight; each has its own frame of locals.
Calls == {"c1", "c2"}

\* Messages of the errors the remote services raise.
Errors == {"boom", "timeout", "quota"}

\* response.text of the text model: None, the empty string or a completion.
Completions == {"None", "", "X"}

\* An exception is the sequence of the parts of its message; None is << >>.
None == << >>
Exc(msg) == << msg >>

\* str(e)
str(e) == IF e = None THEN << "None" >> ELSE e

\* ImageGenerator.MAX_RETRIES and ImageGenerator.RETRY_DELAY
MAX_RETRIES == 3
RETRY_DELAY == 2

\* generate_text's return value for a response: "" when response.text is falsy
GenerateText_Echo(text) == text
GenerateText(text) == IF text = "None" \/ text = "" THEN "" ELSE text

\* for attempt in range(max_retries)
RetryLoopContinues_OneMore(attempt_, max_) == attempt_ <= max_
RetryLoopContinues(attempt_, max_) == attempt_ < max_

\* last_exception = e
KeepLast_First(last, e) == IF last = None THEN e ELSE last
KeepLast(last, e) == e

\* if attempt < max_retries - 1
RetrySleeps_AfterLast(attempt_, max_) == attempt_ < max_
RetrySleeps(attempt_, max_) == attempt_ < max_ - 1

\* delay *= backoff_factor
NextDelay_Add(d, f) == d + f
NextDelay(d, f) == d * f

\* while attempt < self.MAX_RETRIES
ImageLoopContinues(attempt_, max_) == attempt_ < max_

\* if attempt < self.MAX_RETRIES (after attempt += 1)
ImageSleeps(attempt_, max_) == attempt_ < max_

\* self.RETRY_DELAY * attempt
ImageDelay(attempt_) == RETRY_DELAY * attempt_

\* f"Failed to generate image after {self.MAX_RETRIES} attempts. Last error: {str(last_error)}"
ImageErrorMsg(max_, last) ==
    << "Failed to generate image after ", ToString(max_),
       " attempts. Last error: " >> \o str(last)

\* What a call did, in order: the invocations of the wrapped operation with
\* what each gave, and the sleeps with their length.
Invoked(ok_, val_) == [ev |-> "invoke", ok |-> ok_, val |-> val_, d |-> 0]
Slept(d_) == [ev |-> "sleep", ok |-> TRUE, val |-> "", d |-> d_]

\* A KeyboardInterrupt delivered while the call sleeps, as it stands in the log.
Interrupt == [ev |-> "interrupt", ok |-> FALSE, val |-> "KeyboardInterrupt", d |-> 0]

\* What a call returned or raised. type is the class the raised error belongs
\* to: "Exception" for what `except Exception` would catch, "KeyboardInterrupt"
\* for the BaseException an interrupt raises.
NoOutcome == [kind |-> "none", val |-> "", err |-> None, type |-> ""]
ReturnedValue(v) == [kind |-> "returned", val |-> v, err |-> None, type |-> ""]
RaisedError(e) == [kind |-> "raised", val |-> "", err |-> e, type |-> "Exception"]
RaisedInterrupt == [kind |-> "raised", val |-> "", err |-> None, type |-> "KeyboardInterrupt"]

\* time.sleep(...) interrupted: the sleep stands in the except handler, so no
\* except clause of the loop sees the KeyboardInterrupt and it leaves the call.
\* exhausted is the error the call raises when it runs out of attempts.
SleepInterrupted_Swallowed(exhausted) == RaisedError(exhausted)
SleepInterrupted(exhausted) == RaisedInterrupt

\* The frame holding the locals (attempt, delay, last_exception) of call c:
\* they are local variables, so each call has its own.
Frame_Shared(c) == "c1"
Frame(c) == c

\* ------------------------------------------------------------------- state

VARIABLES
    sg_pc,          \* generate_story: "ready", "returned" or "raised"
    max_chars,      \* params.max_chars
    response_text,  \* response.text, as the model returned it
    story_in,       \* story after response.text.strip(), before the limit check
    story,          \* story as returned
    branch,         \* the path taken through the limit check
    char_limit,     \* the limit _create_solarpunk_prompt writes into the prompt
    fn,             \* per call: "retry_with_backoff", "generate_image" or "none"
    rpc,            \* per call: "loop", "sleeping", "done" or "idle"
    policy,         \* per call: max_retries, initial_delay, backoff_factor
    attempt,        \* per call: the local attempt
    delay,          \* per call: the local delay
    last_exception, \* per call: the local last_exception / last_error
    outcome,        \* per call: what the call returned or raised
    log,            \* per call: its invocations and sleeps, in order
    gen_pc,         \* run_generation: "start", "story", "image", "post",
                    \* "preview" or "returned"
    features_arg,   \* the features argument (None and [] are both the empty set)
    features,       \* the local features after the default is applied
    preview_only,   \* the preview_only argument
    result,         \* the local result, a GenerationResult
    gen_log,        \* the collaborators run_generation called, in order
    cred_pc,        \* CredentialManager: "ready" or "done"
    environ,        \* os.environ: a function on the variables that are set
    config,         \* self.config, as _load_config_file left it
    cred_out,       \* the call made on the manager and what it gave
    tw_pc,          \* TwitterClient: "ready" after __init__, "posted" after
                    \* post_tweet, else "idle"
    now,            \* time.time()
    rate_limit,     \* config["api"]["twitter"]["rate_limit"]
    rate_limit_info, \* self.rate_limit_info
    admitted,       \* history: the calls _wait_for_rate_limit has let proceed
                    \* since reset_time was last set
    tw,             \* the last call on the client: arguments, request, response,
                    \* outcome
    bot_pc,         \* TwitterBot: "ready" after __init__, else "idle"
    post_data,      \* the post_data dictionary the bot last created or was given
    post_file,      \* the file post_{timestamp}.json of that post_data
    bot_calls,      \* history: the calls made on the bot
    bot_log,        \* the TwitterClient calls of the last post_to_twitter, in order
    bot_out,        \* the last call on the bot and how it ended
    preview_pc,     \* post_from_preview: "ready" when a preview file is at hand
    preview_file,   \* the preview file on disk
    image_exists,   \* os.path.exists(preview_data['image_path'])
    preview_calls,  \* history: the calls of post_from_preview
    preview_log,    \* the calls the last post_from_preview made, in order
    preview_out     \* the last post_from_preview call and what it returned

storyVars == << sg_pc, max_chars, response_text, story_in, story, branch, char_limit >>

retryVars == << fn, rpc, policy, attempt, delay, last_exception, outcome, log >>

genVars == << gen_pc, features_arg, features, preview_only, result, gen_log >>

credVars == << cred_pc, environ, config, cred_out >>

tweetVars == << tw_pc, now, rate_limit, rate_limit_info, admitted, tw >>

botVars == << bot_pc, post_data, post_file, bot_calls, bot_log, bot_out >>

previewVars ==
    << preview_pc, preview_file, image_exists, preview_calls, preview_log, preview_out >>

vars ==
    << storyVars, retryVars, genVars, credVars, tweetVars, botVars, previewVars >>

\* what an action of one component leaves alone
notStoryVars == << retryVars, genVars, credVars, tweetVars, botVars, previewVars >>
notRetryVars == << storyVars, genVars, credVars, tweetVars, botVars, previewVars >>
notGenVars == << storyVars, retryVars, credVars, tweetVars, botVars, previewVars >>
notCredVars == << storyVars, retryVars, genVars, tweetVars, botVars, previewVars >>
notTweetVars == << storyVars, retryVars, genVars, credVars, botVars, previewVars >>
notBotVars == << storyVars, retryVars, genVars, credVars, tweetVars, previewVars >>
notPreviewVars == << storyVars, retryVars, genVars, credVars, tweetVars, botVars >>

\* ----------------------------------------------------------- generate_story

\* No retrying call in flight.
NoFn == [c \in Calls |-> "none"]
NoPc == [c \in Calls |-> "idle"]
NoAttempt == [c \in Calls |-> 0]
NoDelay == [c \in Calls |-> 0]
NoException == [c \in Calls |-> None]
NoOutcomes == [c \in Calls |-> NoOutcome]
NoLog == [c \in Calls |-> << >>]

\* run_generation not called
GenIdle ==
    /\ gen_pc = "idle"
    /\ features_arg = {}
    /\ features = {}
    /\ preview_only = FALSE
    /\ result = [success |-> FALSE]
    /\ gen_log = << >>

\* no CredentialManager
CredIdle ==
    /\ cred_pc = "idle"
    /\ environ = << >>
    /\ config = [shape |-> "{}", credentials_path |-> "None"]
    /\ cred_out = [call |-> "none"]

\* no TwitterClient
TweetIdle ==
    /\ tw_pc = "idle"
    /\ now = 0
    /\ rate_limit = [max_requests |-> 0, time_window |-> 0]
    /\ rate_limit_info = [remaining_requests |-> 0, reset_time |-> 0]
    /\ admitted = 0
    /\ tw = [call |-> "none"]

\* No dictionary of post_tweet: the key tweet_data is absent.
NoTweetData == [id |-> "None", media_ids |-> << >>]

\* No post_data yet.
NoPostData ==
    [exists |-> FALSE, story |-> "None", image_path |-> "None", timestamp |-> 0,
     posted |-> FALSE, tweet_id |-> "None", tweet_data |-> NoTweetData]

\* No file post_{timestamp}.json yet.
NoPostFile == [state |-> "none", data |-> NoPostData]

NoBotCall ==
    [call |-> "none", raised |-> FALSE, stage |-> "none", before |-> NoPostData,
     val |-> NoTweetData]

\* no TwitterBot
BotIdle ==
    /\ bot_pc = "idle"
    /\ post_data = NoPostData
    /\ post_file = NoPostFile
    /\ bot_calls = 0
    /\ bot_log = << >>
    /\ bot_out = NoBotCall

\* A preview file: "missing" when it cannot be opened, "invalid" when json.load
\* or .get fails on its content, "partial" when a write was cut short, else
\* "data" with the keys it holds (None or "None" for an absent key).
PreviewFile(state_, story_, image_path_) ==
    [state |-> state_, story |-> story_, image_path |-> image_path_,
     tweet_id |-> "None", posted |-> FALSE, post_timestamp |-> 0]

NoPreviewFile == PreviewFile("missing", "None", "None")

NoPreviewCall ==
    [call |-> "none", returned |-> FALSE, before |-> NoPreviewFile]

\* post_from_preview not called
PreviewIdle ==
    /\ preview_pc = "idle"
    /\ preview_file = NoPreviewFile
    /\ image_exists = FALSE
    /\ preview_calls = 0
    /\ preview_log = << >>
    /\ preview_out = NoPreviewCall

\* generate_story not called
StoryIdle ==
    /\ sg_pc = "idle"
    /\ max_chars = X_FREE_CHAR_LIMIT
    /\ response_text = << >>
    /\ story_in = << >>
    /\ story = << >>
    /\ branch = "none"
    /\ char_limit = 0

\* no retrying call
RetryIdle ==
    /\ fn = NoFn
    /\ rpc = NoPc
    /\ policy = [c \in Calls |-> [max_retries |-> 0, initial_delay |-> 0, backoff_factor |-> 1]]
    /\ attempt = NoAttempt
    /\ delay = NoDelay
    /\ last_exception = NoException
    /\ outcome = NoOutcomes
    /\ log = NoLog

\* StoryParameters(max_chars=...): any integer is accepted
InitStory ==
    /\ sg_pc = "ready"
    /\ max_chars \in Limits
    /\ response_text = << >>
    /\ story_in = << >>
    /\ story = << >>
    /\ branch = "none"
    /\ char_limit = 0
    /\ fn = NoFn
    /\ rpc = NoPc
    /\ policy = [c \in Calls |-> [max_retries |-> 0, initial_delay |-> 0, backoff_factor |-> 1]]
    /\ attempt = NoAttempt
    /\ delay = NoDelay
    /\ last_exception = NoException
    /\ outcome = NoOutcomes
    /\ log = NoLog
    /\ GenIdle
    /\ CredIdle
    /\ TweetIdle
    /\ BotIdle
    /\ PreviewIdle

\* _create_solarpunk_prompt: the limit named in the prompt
CharLimit(max_chars_) == max_chars_ - 15

\* generate_story, the model answering with `text`
GenerateStory ==
    /\ sg_pc = "ready"
    /\ char_limit' = CharLimit(max_chars)
    /\ \E text \in Texts \cup ExampleTexts :
          /\ response_text' = text
          /\ story_in' = strip(text)
          /\ story' = FinalizeText(strip(text), max_chars).text
          /\ branch' = FinalizeText(strip(text), max_chars).branch
    /\ sg_pc' = "returned"
    /\ UNCHANGED max_chars
    /\ UNCHANGED notStoryVars

\* generate_story, model.generate_content raising: nothing catches it
GenerateStoryRaises ==
    /\ sg_pc = "ready"
    /\ sg_pc' = "raised"
    /\ char_limit' = CharLimit(max_chars)
    /\ UNCHANGED << max_chars, response_text, story_in, story, branch >>
    /\ UNCHANGED notStoryVars

\* ------------------------------------------------------- retry_with_backoff

Policies ==
    [max_retries : 0..MaxRetries, initial_delay : 0..MaxDelay,
     backoff_factor : 1..MaxFactor]

\* generate_image takes no policy: its bound is the class constant MAX_RETRIES
ImagePolicy ==
    [max_retries |-> MAX_RETRIES, initial_delay |-> 0, backoff_factor |-> 1]

PoliciesOf(f) == IF f = "generate_image" THEN {ImagePolicy} ELSE Policies

\* One retrying call c1, of either kind, on entry: delay = initial_delay and
\* last_exception = None (retry_with_backoff); attempt = 0 and last_error = None
\* (generate_image).
InitRetry ==
    /\ sg_pc = "idle"
    /\ max_chars = X_FREE_CHAR_LIMIT
    /\ response_text = << >>
    /\ story_in = << >>
    /\ story = << >>
    /\ branch = "none"
    /\ char_limit = 0
    /\ \E f \in {"retry_with_backoff", "generate_image"} :
       \E p \in PoliciesOf(f) :
          /\ fn = [NoFn EXCEPT !["c1"] = f]
          /\ rpc = [NoPc EXCEPT !["c1"] = "loop"]
          /\ policy = [c \in Calls |-> p]
          /\ delay = [NoDelay EXCEPT !["c1"] = p.initial_delay]
    /\ attempt = NoAttempt
    /\ last_exception = NoException
    /\ outcome = NoOutcomes
    /\ log = NoLog
    /\ GenIdle
    /\ CredIdle
    /\ TweetIdle
    /\ BotIdle
    /\ PreviewIdle

\* The policies two concurrent calls of retry_with_backoff are given: positive
\* delays, the smallest and the largest delay and factor.
ConcurrentPolicies ==
    [max_retries : 1..MaxConcRetries, initial_delay : {1, MaxDelay},
     backoff_factor : {1, MaxFactor}]

ConcurrentPoliciesOf(f) ==
    IF f = "generate_image" THEN {ImagePolicy} ELSE ConcurrentPolicies

\* Two retrying calls c1 and c2, each of either kind and with its own policy,
\* both on entry.
InitConcurrent ==
    /\ sg_pc = "idle"
    /\ max_chars = X_FREE_CHAR_LIMIT
    /\ response_text = << >>
    /\ story_in = << >>
    /\ story = << >>
    /\ branch = "none"
    /\ char_limit = 0
    /\ \E f1 \in {"retry_with_backoff", "generate_image"} :
       \E f2 \in {"retry_with_backoff", "generate_image"} :
       \E p1 \in ConcurrentPoliciesOf(f1) :
       \E p2 \in ConcurrentPoliciesOf(f2) :
          /\ fn = [c \in Calls |-> IF c = "c1" THEN f1 ELSE f2]
          /\ policy = [c \in Calls |-> IF c = "c1" THEN p1 ELSE p2]
          /\ delay = [c \in Calls |-> IF c = "c1" THEN p1.initial_delay
                                                  ELSE p2.initial_delay]
    /\ rpc = [c \in Calls |-> "loop"]
    /\ attempt = NoAttempt
    /\ last_exception = NoException
    /\ outcome = NoOutcomes
    /\ log = NoLog
    /\ GenIdle
    /\ CredIdle
    /\ TweetIdle
    /\ BotIdle
    /\ PreviewIdle

\* One call c1 of generate_image, on entry, the class attribute MAX_RETRIES
\* being any positive number.
InitImage ==
    /\ sg_pc = "idle"
    /\ max_chars = X_FREE_CHAR_LIMIT
    /\ response_text = << >>
    /\ story_in = << >>
    /\ story = << >>
    /\ branch = "none"
    /\ char_limit = 0
    /\ \E m \in 1..MaxImageRetries :
          policy = [c \in Calls |-> [ImagePolicy EXCEPT !.max_retries = m]]
    /\ fn = [NoFn EXCEPT !["c1"] = "generate_image"]
    /\ rpc = [NoPc EXCEPT !["c1"] = "loop"]
    /\ delay = NoDelay
    /\ attempt = NoAttempt
    /\ last_exception = NoException
    /\ outcome = NoOutcomes
    /\ log = NoLog
    /\ GenIdle
    /\ CredIdle
    /\ TweetIdle
    /\ BotIdle
    /\ PreviewIdle

AtLoop(c, f) == fn[c] = f /\ rpc[c] = "loop"

\* try: return self.generate_text(...), the model answering with `text`
RetryAttemptReturns(c) ==
    /\ AtLoop(c, "retry_with_backoff")
    /\ RetryLoopContinues(attempt[Frame(c)], policy[c].max_retries)
    /\ \E text \in Completions :
          /\ log' = [log EXCEPT ![c] = Append(@, Invoked(TRUE, GenerateText(text)))]
          /\ outcome' = [outcome EXCEPT ![c] = ReturnedValue(GenerateText(text))]
    /\ rpc' = [rpc EXCEPT ![c] = "done"]
    /\ UNCHANGED << fn, policy, attempt, delay, last_exception >>
    /\ UNCHANGED notRetryVars

\* except Exception as e: generate_text raised e; sleep unless it was the last
RetryAttemptFails(c) ==
    /\ AtLoop(c, "retry_with_backoff")
    /\ RetryLoopContinues(attempt[Frame(c)], policy[c].max_retries)
    /\ \E msg \in Errors :
          /\ last_exception' = [last_exception EXCEPT ![Frame(c)] = KeepLast(@, Exc(msg))]
          /\ IF RetrySleeps(attempt[Frame(c)], policy[c].max_retries)
             THEN /\ log' = [log EXCEPT ![c] = Append(Append(@, Invoked(FALSE, msg)),
                                                        Slept(delay[Frame(c)]))]
                  /\ rpc' = [rpc EXCEPT ![c] = "sleeping"]
                  /\ UNCHANGED attempt
             ELSE /\ log' = [log EXCEPT ![c] = Append(@, Invoked(FALSE, msg))]
                  /\ attempt' = [attempt EXCEPT ![Frame(c)] = @ + 1]
                  /\ UNCHANGED rpc
    /\ UNCHANGED << fn, policy, delay, outcome >>
    /\ UNCHANGED notRetryVars

\* time.sleep(delay) returns; delay *= backoff_factor; next iteration
RetrySleepDone(c) ==
    /\ fn[c] = "retry_with_backoff"
    /\ rpc[c] = "sleeping"
    /\ delay' = [delay EXCEPT ![Frame(c)] = NextDelay(@, policy[c].backoff_factor)]
    /\ attempt' = [attempt EXCEPT ![Frame(c)] = @ + 1]
    /\ rpc' = [rpc EXCEPT ![c] = "loop"]
    /\ UNCHANGED << fn, policy, last_exception, outcome, log >>
    /\ UNCHANGED notRetryVars

\* time.sleep(delay) is interrupted (SIGINT): KeyboardInterrupt leaves the call
RetrySleepInterrupted(c) ==
    /\ fn[c] = "retry_with_backoff"
    /\ rpc[c] = "sleeping"
    /\ log' = [log EXCEPT ![c] = Append(@, Interrupt)]
    /\ outcome' = [outcome EXCEPT ![c] = SleepInterrupted(last_exception[Frame(c)])]
    /\ rpc' = [rpc EXCEPT ![c] = "done"]
    /\ UNCHANGED << fn, policy, attempt, delay, last_exception >>
    /\ UNCHANGED notRetryVars

\* after the loop: raise last_exception if there is one, else return ""
RetryLoopEnds(c) ==
    /\ AtLoop(c, "retry_with_backoff")
    /\ ~RetryLoopContinues(attempt[Frame(c)], policy[c].max_retries)
    /\ outcome' = [outcome EXCEPT ![c] =
                      IF last_exception[Frame(c)] # None
                      THEN RaisedError(last_exception[Frame(c)])
                      ELSE ReturnedValue("")]
    /\ rpc' = [rpc EXCEPT ![c] = "done"]
    /\ UNCHANGED << fn, policy, attempt, delay, last_exception, log >>
    /\ UNCHANGED notRetryVars

\* ----------------------------------------------------------- generate_image

\* try: model.generate_images(...) answers and the images are returned
ImageAttemptReturns(c) ==
    /\ AtLoop(c, "generate_image")
    /\ ImageLoopContinues(attempt[Frame(c)], policy[c].max_retries)
    /\ log' = [log EXCEPT ![c] = Append(@, Invoked(TRUE, "images"))]
    /\ outcome' = [outcome EXCEPT ![c] = ReturnedValue("images")]
    /\ rpc' = [rpc EXCEPT ![c] = "done"]
    /\ UNCHANGED << fn, policy, attempt, delay, last_exception >>
    /\ UNCHANGED notRetryVars

\* except Exception as e: attempt += 1; last_error = e; sleep unless it was the last
ImageAttemptFails(c) ==
    /\ AtLoop(c, "generate_image")
    /\ ImageLoopContinues(attempt[Frame(c)], policy[c].max_retries)
    /\ attempt' = [attempt EXCEPT ![Frame(c)] = @ + 1]
    /\ \E msg \in Errors :
          /\ last_exception' = [last_exception EXCEPT ![Frame(c)] = Exc(msg)]
          /\ IF ImageSleeps(attempt[Frame(c)] + 1, policy[c].max_retries)
             THEN /\ log' = [log EXCEPT ![c] = Append(Append(@, Invoked(FALSE, msg)),
                                                        Slept(ImageDelay(attempt[Frame(c)] + 1)))]
                  /\ rpc' = [rpc EXCEPT ![c] = "sleeping"]
             ELSE /\ log' = [log EXCEPT ![c] = Append(@, Invoked(FALSE, msg))]
                  /\ UNCHANGED rpc
    /\ UNCHANGED << fn, policy, delay, outcome >>
    /\ UNCHANGED notRetryVars

\* time.sleep(...) returns; back to the loop head
ImageSleepDone(c) ==
    /\ fn[c] = "generate_image"
    /\ rpc[c] = "sleeping"
    /\ rpc' = [rpc EXCEPT ![c] = "loop"]
    /\ UNCHANGED << fn, policy, attempt, delay, last_exception, outcome, log >>
    /\ UNCHANGED notRetryVars

\* time.sleep(...) is interrupted (SIGINT): KeyboardInterrupt leaves the call
ImageSleepInterrupted(c) ==
    /\ fn[c] = "generate_image"
    /\ rpc[c] = "sleeping"
    /\ log' = [log EXCEPT ![c] = Append(@, Interrupt)]
    /\ outcome' = [outcome EXCEPT ![c] =
                      SleepInterrupted(ImageErrorMsg(policy[c].max_retries, last_exception[Frame(c)]))]
    /\ rpc' = [rpc EXCEPT ![c] = "done"]
    /\ UNCHANGED << fn, policy, attempt, delay, last_exception >>
    /\ UNCHANGED notRetryVars

\* after the loop: raise Exception(error_msg)
ImageLoopEnds(c) ==
    /\ AtLoop(c, "generate_image")
    /\ ~ImageLoopContinues(attempt[Frame(c)], policy[c].max_retries)
    /\ outcome' = [outcome EXCEPT ![c] = RaisedError(ImageErrorMsg(policy[c].max_retries, last_exception[Frame(c)]))]
    /\ rpc' = [rpc EXCEPT ![c] = "done"]
    /\ UNCHANGED << fn, policy, attempt, delay, last_exception, log >>
    /\ UNCHANGED notRetryVars

\* ----------------------------------------------------------- run_generation

\* An Optional[str] is a string, None being "None". Python truthiness: None
\* and "" are false.
Truthy(v) == v # "None" /\ v # ""

FEATURES == {"story", "image", "post"}

\* GenerationResult(success=...): every other field at its default None
GenerationResult(success_) ==
    [success |-> success_, story |-> "None", story_metadata |-> "None",
     image_path |-> "None", image_metadata |-> "None", tweet_id |-> "None",
     error |-> None]

\* if not features: features = ["story", "image", "post"]
DefaultFeatures(features_) ==
    IF features_ = {} THEN {"story", "image", "post"} ELSE features_

\* except Exception as e: return GenerationResult(success=False, error=error_msg)
GenerationFailed(e) ==
    [GenerationResult(FALSE) EXCEPT !.error = << "Error in generation flow: ", e >>]

\* the conditions of steps 2, 3 and 4
RunsStory(features_) == "story" \in features_
RunsImage(features_, result_) == "image" \in features_ /\ Truthy(result_.story)
RunsPost_IgnoresPreview(features_, preview_only_, result_) ==
    /\ "post" \in features_
    /\ Truthy(result_.story)
    /\ Truthy(result_.image_path)
RunsPost(features_, preview_only_, result_) ==
    /\ "post" \in features_
    /\ ~preview_only_
    /\ Truthy(result_.story)
    /\ Truthy(result_.image_path)

\* What generate_story(setting) gives: a story (the model may answer with
\* nothing but blanks, which strip() leaves empty) or an exception.
StoryOutcomes ==
    { [ok |-> TRUE, val |-> "Story."], [ok |-> TRUE, val |-> ""],
      [ok |-> FALSE, val |-> "story failed"] }

\* What generate_image(...) gives: the save path or an exception.
ImageOutcomes ==
    { [ok |-> TRUE, val |-> "image.png"], [ok |-> FALSE, val |-> "image failed"] }

\* What post_to_twitter gives: TwitterClient() raising, upload_media raising,
\* post_tweet raising, or the value post_tweet returned (a dict, written as a
\* string here). media_id is what upload_media returned.
PostOutcomes ==
    { [client |-> FALSE, uploaded |-> FALSE, ok |-> FALSE, media_id |-> "",
       val |-> "Failed to configure Twitter API clients"],
      [client |-> TRUE, uploaded |-> FALSE, ok |-> FALSE, media_id |-> "",
       val |-> "Failed to upload media"] }
    \cup { [client |-> TRUE, uploaded |-> TRUE, ok |-> FALSE, media_id |-> m,
            val |-> "Failed to post tweet"] : m \in {"m1", "m2"} }
    \cup { [client |-> TRUE, uploaded |-> TRUE, ok |-> TRUE, media_id |-> m,
            val |-> "{id: t1}"] : m \in {"m1", "m2"} }

\* A call as the log holds it: whether it returned, its media_ids argument and
\* the value it returned.
CalledWith(name, ok_, arg_, val_) ==
    [call |-> name, ok |-> ok_, arg |-> arg_, val |-> val_]
Called(name, ok_) == CalledWith(name, ok_, << >>, "")

\* media_ids=[media_id]
MediaIds_None(media_id) == << >>
MediaIds(media_id) == << media_id >>

\* post_to_twitter(story, image_path): the calls made, in order
PostToTwitterCalls(out) ==
    << Called("post_to_twitter", out.ok) >>
    \o (IF out.client
        THEN << CalledWith("upload_media", out.uploaded, << >>, out.media_id) >>
        ELSE << >>)
    \o (IF out.uploaded
        THEN << CalledWith("post_tweet", out.ok, MediaIds(out.media_id), out.val) >>
        ELSE << >>)

\* run_generation on entry
InitGen ==
    /\ gen_pc = "start"
    /\ features_arg \in SUBSET FEATURES
    /\ preview_only \in BOOLEAN
    /\ features = {}
    /\ result = GenerationResult(FALSE)
    /\ gen_log = << >>
    /\ sg_pc = "idle"
    /\ max_chars = X_FREE_CHAR_LIMIT
    /\ response_text = << >>
    /\ story_in = << >>
    /\ story = << >>
    /\ branch = "none"
    /\ char_limit = 0
    /\ fn = NoFn
    /\ rpc = NoPc
    /\ policy = [c \in Calls |-> [max_retries |-> 0, initial_delay |-> 0, backoff_factor |-> 1]]
    /\ attempt = NoAttempt
    /\ delay = NoDelay
    /\ last_exception = NoException
    /\ outcome = NoOutcomes
    /\ log = NoLog
    /\ CredIdle
    /\ TweetIdle
    /\ BotIdle
    /\ PreviewIdle

\* 1. the defaults, and result = GenerationResult(success=False)
GenStart ==
    /\ gen_pc = "start"
    /\ features' = DefaultFeatures(features_arg)
    /\ result' = GenerationResult(FALSE)
    /\ gen_pc' = "story"
    /\ UNCHANGED << features_arg, preview_only, gen_log >>
    /\ UNCHANGED notGenVars

\* 2. Generate story if requested
GenStoryStep ==
    /\ gen_pc = "story"
    /\ IF RunsStory(features)
       THEN \E out \in StoryOutcomes :
               /\ gen_log' = Append(gen_log, Called("generate_story", out.ok))
               /\ IF out.ok
                  THEN /\ result' = [result EXCEPT !.story = out.val,
                                                   !.story_metadata = "metadata"]
                       /\ gen_pc' = "image"
                  ELSE /\ result' = GenerationFailed(out.val)
                       /\ gen_pc' = "returned"
       ELSE /\ gen_pc' = "image"
            /\ UNCHANGED << result, gen_log >>
    /\ UNCHANGED << features_arg, features, preview_only >>
    /\ UNCHANGED notGenVars

\* 3. Generate image if requested
GenImageStep ==
    /\ gen_pc = "image"
    /\ IF RunsImage(features, result)
       THEN \E out \in ImageOutcomes :
               /\ gen_log' = gen_log \o << Called("extract_image_prompt", TRUE),
                                           Called("generate_image", out.ok) >>
               /\ IF out.ok
                  THEN /\ result' = [result EXCEPT !.image_path = out.val,
                                                   !.image_metadata = "metadata"]
                       /\ gen_pc' = "post"
                  ELSE /\ result' = GenerationFailed(out.val)
                       /\ gen_pc' = "returned"
       ELSE /\ gen_pc' = "post"
            /\ UNCHANGED << result, gen_log >>
    /\ UNCHANGED << features_arg, features, preview_only >>
    /\ UNCHANGED notGenVars

\* 4. Post to Twitter if requested and not preview only
GenPostStep ==
    /\ gen_pc = "post"
    /\ IF RunsPost(features, preview_only, result)
       THEN \E out \in PostOutcomes :
               /\ gen_log' = gen_log \o PostToTwitterCalls(out)
               /\ IF out.ok
                  THEN /\ result' = [result EXCEPT !.tweet_id = out.val]
                       /\ gen_pc' = "preview"
                  ELSE /\ result' = GenerationFailed(out.val)
                       /\ gen_pc' = "returned"
       ELSE /\ gen_pc' = "preview"
            /\ UNCHANGED << result, gen_log >>
    /\ UNCHANGED << features_arg, features, preview_only >>
    /\ UNCHANGED notGenVars

\* 5. Save preview if requested; return result._replace(success=True)
GenPreviewStep ==
    /\ gen_pc = "preview"
    /\ IF preview_only
       THEN \E saved \in BOOLEAN :
               /\ gen_log' = Append(gen_log, Called("save_preview", saved))
               /\ result' = IF saved THEN [result EXCEPT !.success = TRUE]
                                     ELSE GenerationFailed("preview failed")
       ELSE /\ result' = [result EXCEPT !.success = TRUE]
            /\ UNCHANGED gen_log
    /\ gen_pc' = "returned"
    /\ UNCHANGED << features_arg, features, preview_only >>
    /\ UNCHANGED notGenVars

NextGen ==
    \/ GenStart
    \/ GenStoryStep
    \/ GenImageStep
    \/ GenPostStep
    \/ GenPreviewStep

SpecGen == InitGen /\ [][NextGen]_vars

\* -------------------------------------------------------- CredentialManager

TwitterRequired ==
    << "TWITTER_API_KEY", "TWITTER_API_SECRET", "TWITTER_ACCESS_TOKEN",
       "TWITTER_ACCESS_TOKEN_SECRET" >>

EnvKeys ==
    { TwitterRequired[i] : i \in 1..Len(TwitterRequired) }
        \cup {"TWITTER_BEARER_TOKEN", "GOOGLE_APPLICATION_CREDENTIALS"}

\* The values a variable that is set may hold; a set variable may be empty.
EnvValues == {"", "a", "b"}

Environs == UNION { [K -> EnvValues] : K \in SUBSET EnvKeys }

\* self.config after __init__: {} when no file was loaded, else what
\* yaml.safe_load gave: None for an empty file, or a mapping whose api /
\* google_cloud entry may be null and whose credentials_path may be absent
\* ("None"), empty or a path.
ConfigShapes ==
    {"{}", "None", "api: None", "google_cloud: None", "credentials_path"}

Configs ==
    { [shape |-> sh, credentials_path |-> "None"] :
          sh \in ConfigShapes \ {"credentials_path"} }
    \cup { [shape |-> "credentials_path", credentials_path |-> cp] :
               cp \in {"None", "", "config.json"} }

NoError == [type |-> "", msg |-> << >>]
ValueError(msg_) == [type |-> "ValueError", msg |-> msg_]
AttributeError(msg_) == [type |-> "AttributeError", msg |-> msg_]

Gave(v) == [raised |-> FALSE, val |-> v, err |-> NoError]
Raising(e) == [raised |-> TRUE, val |-> "None", err |-> e]

\* os.environ.get(key, default)
get_env(env, key, default) == IF key \in DOMAIN env THEN env[key] ELSE default

\* get_required_env: if value is None: raise ValueError(...)
get_required_env(env, key) ==
    LET value == get_env(env, key, "None")
    IN  IF value = "None"
        THEN Raising(ValueError(<< "Required environment variable not set: ", key >>))
        ELSE Gave(value)

\* The entries of the dict get_twitter_credentials builds, in the order they
\* are evaluated.
TwitterEntries_BearerRequired ==
    << [name |-> "api_key", key |-> "TWITTER_API_KEY", required |-> TRUE],
       [name |-> "api_secret", key |-> "TWITTER_API_SECRET", required |-> TRUE],
       [name |-> "access_token", key |-> "TWITTER_ACCESS_TOKEN", required |-> TRUE],
       [name |-> "access_token_secret", key |-> "TWITTER_ACCESS_TOKEN_SECRET",
        required |-> TRUE],
       [name |-> "bearer_token", key |-> "TWITTER_BEARER_TOKEN", required |-> TRUE] >>
TwitterEntries ==
    << [name |-> "api_key", key |-> "TWITTER_API_KEY", required |-> TRUE],
       [name |-> "api_secret", key |-> "TWITTER_API_SECRET", required |-> TRUE],
       [name |-> "access_token", key |-> "TWITTER_ACCESS_TOKEN", required |-> TRUE],
       [name |-> "access_token_secret", key |-> "TWITTER_ACCESS_TOKEN_SECRET",
        required |-> TRUE],
       [name |-> "bearer_token", key |-> "TWITTER_BEARER_TOKEN", required |-> FALSE] >>

EntryValue(env, entry) ==
    IF entry.required THEN get_required_env(env, entry.key)
                      ELSE Gave(get_env(env, entry.key, "None"))

\* get_twitter_credentials: the first entry that raises ends the call
get_twitter_credentials(env) ==
    LET entries == TwitterEntries
        failing == { i \in 1..Len(entries) : EntryValue(env, entries[i]).raised }
    IN  IF failing # {}
        THEN EntryValue(env, entries[CHOOSE i \in failing : \A j \in failing : i <= j])
        ELSE Gave([i \in 1..Len(entries) |->
                      [name |-> entries[i].name,
                       value |-> EntryValue(env, entries[i]).val]])

\* self.config.get("api", {}).get("google_cloud", {}).get("credentials_path")
ConfigCredentialsPath(config_) ==
    CASE config_.shape = "{}" -> Gave("None")
      [] config_.shape = "None" ->
            Raising(AttributeError(<< "'NoneType' object has no attribute 'get'" >>))
      [] config_.shape = "api: None" ->
            Raising(AttributeError(<< "'NoneType' object has no attribute 'get'" >>))
      [] config_.shape = "google_cloud: None" ->
            Raising(AttributeError(<< "'NoneType' object has no attribute 'get'" >>))
      [] OTHER -> Gave(config_.credentials_path)

\* get_google_cloud_credentials: the default is evaluated before get_env runs
get_google_cloud_credentials(env, config_) ==
    LET default == ConfigCredentialsPath(config_)
        credentials_path ==
            get_env(env, "GOOGLE_APPLICATION_CREDENTIALS", default.val)
    IN  IF default.raised THEN default
        ELSE IF ~Truthy(credentials_path)
        THEN Raising(ValueError(<< "Google Cloud credentials path not set" >>))
        ELSE Gave([credentials_path |-> credentials_path])

CredCall(name, key, r) ==
    [call |-> name, key |-> key, raised |-> r.raised, val |-> r.val, err |-> r.err]

\* A CredentialManager after __init__, in any environment and with any config
InitCred ==
    /\ cred_pc = "ready"
    /\ environ \in Environs
    /\ config \in Configs
    /\ cred_out = [call |-> "none"]
    /\ sg_pc = "idle"
    /\ max_chars = X_FREE_CHAR_LIMIT
    /\ response_text = << >>
    /\ story_in = << >>
    /\ story = << >>
    /\ branch = "none"
    /\ char_limit = 0
    /\ fn = NoFn
    /\ rpc = NoPc
    /\ policy = [c \in Calls |-> [max_retries |-> 0, initial_delay |-> 0, backoff_factor |-> 1]]
    /\ attempt = NoAttempt
    /\ delay = NoDelay
    /\ last_exception = NoException
    /\ outcome = NoOutcomes
    /\ log = NoLog
    /\ GenIdle
    /\ TweetIdle
    /\ BotIdle
    /\ PreviewIdle

GetRequiredEnv(key) ==
    /\ cred_pc = "ready"
    /\ cred_out' = CredCall("get_required_env", key, get_required_env(environ, key))
    /\ cred_pc' = "done"
    /\ UNCHANGED << environ, config >>
    /\ UNCHANGED notCredVars

GetTwitterCredentials ==
    /\ cred_pc = "ready"
    /\ cred_out' = CredCall("get_twitter_credentials", "", get_twitter_credentials(environ))
    /\ cred_pc' = "done"
    /\ UNCHANGED << environ, config >>
    /\ UNCHANGED notCredVars

GetGoogleCloudCredentials ==
    /\ cred_pc = "ready"
    /\ cred_out' = CredCall("get_google_cloud_credentials", "",
                            get_google_cloud_credentials(environ, config))
    /\ cred_pc' = "done"
    /\ UNCHANGED << environ, config >>
    /\ UNCHANGED notCredVars

NextCred ==
    \/ \E key \in EnvKeys : GetRequiredEnv(key)
    \/ GetTwitterCredentials
    \/ GetGoogleCloudCredentials

SpecCred == InitCred /\ [][NextCred]_vars

\* ------------------------------------------------------------ TwitterClient

\* A text of n characters, every tenth one a full stop.
TweetText(n) == [i \in 1..n |-> IF i % 10 = 0 THEN "." ELSE "a"]

TweetLengths == {1, 280, 281, 290}

TweetTexts == { TweetText(n) : n \in TweetLengths }

\* An Optional[List[str]]: None, or a list.
NoList == [none |-> TRUE, list |-> << >>]
List(l) == [none |-> FALSE, list |-> l]
MediaArgs == { NoList, List(<< >>), List(<< "m1" >>), List(<< "m1", "m2" >>) }

\* Python truthiness of an Optional[List[str]]: None and [] are false
ListTruthy(m) == ~m.none /\ m.list # << >>

\* media_ids or []
OrEmptyList(m) == IF ListTruthy(m) THEN m.list ELSE << >>

\* if len(text) > 280: text = text[:277] + "..."
TruncateTweet_Keep280(text) ==
    IF Len(text) > 280 THEN PySlice(text, 280) \o << ".", ".", "." >> ELSE text
TruncateTweet(text) ==
    IF Len(text) > 280 THEN PySlice(text, 277) \o << ".", ".", "." >> ELSE text

\* payload = {"text": text}, with "media" and "reply" added if provided
Payload(text, media_ids, reply_to) ==
    [text |-> TruncateTweet(text),
     has_media |-> ListTruthy(media_ids),
     media_ids |-> OrEmptyList(media_ids),
     has_reply |-> Truthy(reply_to),
     in_reply_to_tweet_id |-> reply_to]

StatusCodes == {200, 201, 204, 403}

\* What oauth.post gives: an exception (sent is false), or a response with a
\* status code and a body that is no JSON, JSON without "data", JSON whose
\* "data" is null, or JSON whose "data" holds id and text (either may be absent).
Responses ==
    { [sent |-> FALSE, status_code |-> 0, json |-> "invalid", id |-> "None",
       text |-> "None"] }
    \cup { [sent |-> TRUE, status_code |-> st, json |-> js, id |-> "None",
            text |-> "None"] :
               st \in StatusCodes, js \in {"invalid", "no data", "data: None"} }
    \cup { [sent |-> TRUE, status_code |-> st, json |-> "data", id |-> id_,
            text |-> tx] :
               st \in StatusCodes, id_ \in {"None", "", "t1"}, tx \in {"None", "hello"} }

Exception(msg_) == [type |-> "Exception", msg |-> msg_]

\* if response.status_code not in [200, 201]: raise
StatusOk_NoError(status_code) == status_code < 400
StatusOk(status_code) == status_code \in {200, 201}

\* post_tweet from its try on: what it returns or raises, at time t
PostTweetOutcome(media_ids, response, t) ==
    IF ~response.sent
    THEN Raising(Exception(<< "Failed to post tweet: ", "connection failed" >>))
    ELSE IF ~StatusOk(response.status_code)
    THEN Raising(Exception(<< "Failed to post tweet: ", "Failed to post tweet: ",
                              ToString(response.status_code), " - ", "body" >>))
    ELSE IF response.json = "invalid"
    THEN Raising(Exception(<< "Failed to post tweet: ", "Expecting value" >>))
    ELSE IF response.json = "data: None"
    THEN Raising(Exception(<< "Failed to post tweet: ",
                              "'NoneType' object has no attribute 'get'" >>))
    ELSE LET tweet_id == IF response.json = "no data" THEN "None" ELSE response.id
             tweet_text == IF response.json = "no data" THEN "None" ELSE response.text
         IN  IF ~Truthy(tweet_id)
             THEN Raising(Exception(<< "Failed to post tweet: ",
                                       "Failed to extract tweet ID from response" >>))
             ELSE Gave([id |-> tweet_id, text |-> tweet_text, created_at |-> t,
                        media_ids |-> OrEmptyList(media_ids)])

\* _check_rate_limit at time t: the rate_limit_info it leaves and its answer
CheckRateLimit(t, info, limit) ==
    IF t > info.reset_time
    THEN [info |-> [remaining_requests |-> limit.max_requests,
                    reset_time |-> t + limit.time_window],
          proceed |-> TRUE]
    ELSE IF info.remaining_requests > 0
    THEN [info |-> [info EXCEPT !.remaining_requests = @ - 1], proceed |-> TRUE]
    ELSE [info |-> info, proceed |-> FALSE]

\* _wait_for_rate_limit at time t: the rate_limit_info it leaves and the time
\* at which the caller goes on, after time.sleep(wait_time + 1) if it waited
WaitForRateLimit(t, info, limit) ==
    LET checked == CheckRateLimit(t, info, limit)
        wait_time == checked.info.reset_time - t
    IN  [info |-> checked.info,
         now |-> IF ~checked.proceed /\ wait_time > 0 THEN t + wait_time + 1 ELSE t]

\* The calls let proceed since reset_time was last set, once a call made at
\* time t has gone through _wait_for_rate_limit: the call that resets
\* reset_time is the first of its window, and every call proceeds in the end.
Admitted(t, info, n) == IF t > info.reset_time THEN 1 ELSE n + 1

\* TwitterClient.__init__: the rate limit of the config, a full window ahead
InitTweet ==
    /\ tw_pc = "ready"
    /\ now = 0
    /\ rate_limit \in [max_requests : 1..MaxRequests, time_window : 1..MaxWindow]
    /\ rate_limit_info = [remaining_requests |-> rate_limit.max_requests,
                          reset_time |-> now + rate_limit.time_window]
    /\ admitted = 0
    /\ tw = [call |-> "none"]
    /\ sg_pc = "idle"
    /\ max_chars = X_FREE_CHAR_LIMIT
    /\ response_text = << >>
    /\ story_in = << >>
    /\ story = << >>
    /\ branch = "none"
    /\ char_limit = 0
    /\ fn = NoFn
    /\ rpc = NoPc
    /\ policy = [c \in Calls |-> [max_retries |-> 0, initial_delay |-> 0, backoff_factor |-> 1]]
    /\ attempt = NoAttempt
    /\ delay = NoDelay
    /\ last_exception = NoException
    /\ outcome = NoOutcomes
    /\ log = NoLog
    /\ GenIdle
    /\ CredIdle
    /\ BotIdle
    /\ PreviewIdle

\* upload_media(media_path): the rate limiter, then the upload, which gives a
\* media id or raises
UploadMedia ==
    /\ tw_pc = "ready"
    /\ \E uploaded \in BOOLEAN :
          LET waited == WaitForRateLimit(now, rate_limit_info, rate_limit)
              r == IF uploaded THEN Gave("m1")
                   ELSE Raising(Exception(<< "Failed to upload media: ",
                                             "Media file not found" >>))
          IN  /\ waited.now <= MaxTime
              /\ now' = waited.now
              /\ rate_limit_info' = waited.info
              /\ admitted' = Admitted(now, rate_limit_info, admitted)
              /\ admitted' <= MaxAdmitted
              /\ tw' = [call |-> "upload_media", raised |-> r.raised, val |-> r.val,
                        err |-> r.err]
    /\ UNCHANGED << tw_pc, rate_limit >>
    /\ UNCHANGED notTweetVars

\* delete_tweet(tweet_id): the rate limiter, then the deletion; True, or False
\* when it failed
DeleteTweet ==
    /\ tw_pc = "ready"
    /\ \E deleted \in {"True", "False"} :
          LET waited == WaitForRateLimit(now, rate_limit_info, rate_limit)
          IN  /\ waited.now <= MaxTime
              /\ now' = waited.now
              /\ rate_limit_info' = waited.info
              /\ admitted' = Admitted(now, rate_limit_info, admitted)
              /\ admitted' <= MaxAdmitted
              /\ tw' = [call |-> "delete_tweet", raised |-> FALSE, val |-> deleted,
                        err |-> NoError]
    /\ UNCHANGED << tw_pc, rate_limit >>
    /\ UNCHANGED notTweetVars

\* get_tweet(tweet_id): the rate limiter, then the lookup; the tweet's data,
\* or None when it was not found or the lookup failed
GetTweet ==
    /\ tw_pc = "ready"
    /\ \E found \in {"{id: t1}", "None"} :
          LET waited == WaitForRateLimit(now, rate_limit_info, rate_limit)
          IN  /\ waited.now <= MaxTime
              /\ now' = waited.now
              /\ rate_limit_info' = waited.info
              /\ admitted' = Admitted(now, rate_limit_info, admitted)
              /\ admitted' <= MaxAdmitted
              /\ tw' = [call |-> "get_tweet", raised |-> FALSE, val |-> found,
                        err |-> NoError]
    /\ UNCHANGED << tw_pc, rate_limit >>
    /\ UNCHANGED notTweetVars

\* post_tweet(text, media_ids, reply_to), the API answering with response; the
\* client's last call
PostTweet ==
    /\ tw_pc = "ready"
    /\ \E text \in TweetTexts, media_ids \in MediaArgs, reply_to \in {"None", "r1"},
          response \in Responses :
          LET waited == WaitForRateLimit(now, rate_limit_info, rate_limit)
              r == PostTweetOutcome(media_ids, response, waited.now)
          IN  /\ waited.now <= MaxTime
              /\ now' = waited.now
              /\ rate_limit_info' = waited.info
              /\ admitted' = Admitted(now, rate_limit_info, admitted)
              /\ admitted' <= MaxAdmitted
              /\ tw' = [call |-> "post_tweet", text |-> text, media_ids |-> media_ids,
                        reply_to |-> reply_to,
                        payload |-> Payload(text, media_ids, reply_to),
                        response |-> response,
                        raised |-> r.raised, val |-> r.val, err |-> r.err]
    /\ tw_pc' = "posted"
    /\ UNCHANGED rate_limit
    /\ UNCHANGED notTweetVars

\* time passes
Tick ==
    /\ tw_pc = "ready"
    /\ now < MaxTime
    /\ now' = now + 1
    /\ UNCHANGED << tw_pc, rate_limit, rate_limit_info, admitted, tw >>
    /\ UNCHANGED notTweetVars

NextTweet == UploadMedia \/ DeleteTweet \/ GetTweet \/ PostTweet \/ Tick

SpecTweet == InitTweet /\ [][NextTweet]_vars

\* ----------------------------------------------------------- TwitterBot

\* TwitterBot(): the generators, the client, an empty post_history
InitBot ==
    /\ bot_pc = "ready"
    /\ post_data = NoPostData
    /\ post_file = NoPostFile
    /\ bot_calls = 0
    /\ bot_log = << >>
    /\ bot_out = NoBotCall
    /\ StoryIdle
    /\ RetryIdle
    /\ GenIdle
    /\ CredIdle
    /\ TweetIdle
    /\ PreviewIdle

\* generate_post's dictionary: "posted": False, "tweet_id": None
NewPostData(timestamp) ==
    [exists |-> TRUE, story |-> "Story.", image_path |-> "image.png",
     timestamp |-> timestamp, posted |-> FALSE, tweet_id |-> "None",
     tweet_data |-> NoTweetData]

\* json.dump(serializable_post_data, f) went through
Saved(post_data_) == [state |-> "saved", data |-> post_data_]

\* The file was opened for writing and the dump did not finish.
PartialPostFile == [state |-> "partial", data |-> NoPostData]

\* generate_post returns the dictionary or raises
GenerateOutcomes == {"ok", "failed"}

\* The dictionary post_tweet returns.
TweetData(id, media_ids) == [id |-> id, media_ids |-> media_ids]

\* media_ids=[media_id]
BotMediaIds(media_id) == << media_id >>

\* What the client does for one post_to_twitter: upload_media raises or gives
\* a media id, then post_tweet raises or gives the tweet's dictionary.
BotPostOutcomes ==
    { [uploaded |-> FALSE, ok |-> FALSE, media_id |-> "", tweet_id |-> ""] }
    \cup { [uploaded |-> TRUE, ok |-> FALSE, media_id |-> m, tweet_id |-> ""] :
            m \in {"m1", "m2"} }
    \cup { [uploaded |-> TRUE, ok |-> TRUE, media_id |-> m, tweet_id |-> t] :
            m \in {"m1", "m2"}, t \in {"t1", "t2"} }

\* The rewrite of the post file: done, open() raised, or the dump raised.
WriteOutcomes == {"ok", "open failed", "dump failed"}

\* The client calls of post_to_twitter, in order.
BotPostToTwitterCalls(out) ==
    << CalledWith("upload_media", out.uploaded, << >>, out.media_id) >>
    \o (IF out.uploaded
        THEN << CalledWith("post_tweet", out.ok, BotMediaIds(out.media_id),
                           out.tweet_id) >>
        ELSE << >>)

\* post_data["posted"] = True; post_data["tweet_id"] = tweet_data["id"];
\* post_data["tweet_data"] = tweet_data
MarkPosted_NoId(post_data_, tweet_data) ==
    [post_data_ EXCEPT !.posted = TRUE, !.tweet_data = tweet_data]
MarkPosted(post_data_, tweet_data) ==
    [post_data_ EXCEPT !.posted = TRUE, !.tweet_id = tweet_data.id,
                       !.tweet_data = tweet_data]

\* Where post_to_twitter stopped.
BotStage(generated, out, write) ==
    IF ~generated THEN "generate"
    ELSE IF ~out.uploaded THEN "upload"
    ELSE IF ~out.ok THEN "tweet"
    ELSE IF write # "ok" THEN "save"
    ELSE "done"

\* generate_post(): a new post_data, saved and returned, or an exception
BotGeneratePost ==
    /\ bot_pc = "ready"
    /\ bot_calls < MaxBotCalls
    /\ bot_calls' = bot_calls + 1
    /\ \E g \in GenerateOutcomes :
        /\ post_data' = IF g = "ok" THEN NewPostData(bot_calls + 1) ELSE post_data
        /\ post_file' = IF g = "ok" THEN Saved(post_data') ELSE post_file
        /\ bot_out' = [call |-> "generate_post", raised |-> g # "ok",
                       stage |-> IF g = "ok" THEN "done" ELSE "generate",
                       before |-> post_data, val |-> NoTweetData]
    /\ bot_log' = << >>
    /\ UNCHANGED << bot_pc, notBotVars >>

\* post_to_twitter(post_data): the whole call, with the caller's post_data or
\* a generated one
BotPostToTwitter ==
    /\ bot_pc = "ready"
    /\ bot_calls < MaxBotCalls
    /\ bot_calls' = bot_calls + 1
    /\ \E given \in BOOLEAN, g \in GenerateOutcomes, out \in BotPostOutcomes,
          write \in WriteOutcomes :
        /\ given => post_data.exists
        /\ LET generated == given \/ g = "ok"
               pd == IF given THEN post_data ELSE NewPostData(bot_calls + 1)
               pf == IF given THEN post_file ELSE Saved(pd)
               stage == BotStage(generated, out, write)
               tweet_data == TweetData(out.tweet_id, BotMediaIds(out.media_id))
           IN  /\ post_data' =
                    IF ~generated THEN post_data
                    ELSE IF out.ok THEN MarkPosted(pd, tweet_data)
                    ELSE pd
               /\ post_file' =
                    IF ~generated THEN post_file
                    ELSE IF stage = "done" THEN Saved(post_data')
                    ELSE IF stage = "save" /\ write = "dump failed"
                         THEN PartialPostFile
                    ELSE pf
               /\ bot_log' = IF generated THEN BotPostToTwitterCalls(out) ELSE << >>
               /\ bot_out' = [call |-> "post_to_twitter", raised |-> stage # "done",
                              stage |-> stage,
                              before |-> IF generated THEN pd ELSE post_data,
                              val |-> IF stage = "done" THEN tweet_data
                                      ELSE NoTweetData]
    /\ UNCHANGED << bot_pc, notBotVars >>

NextBot == BotGeneratePost \/ BotPostToTwitter

SpecBot == InitBot /\ [][NextBot]_vars

\* ----------------------------------------------------------- post_from_preview

\* The files post_from_preview may be pointed at.
PreviewFiles ==
    { NoPreviewFile, PreviewFile("invalid", "None", "None") }
    \cup { PreviewFile("data", s, i) :
            s \in {"None", "", "Story."}, i \in {"None", "", "image.png"} }

\* int(time.time())
PostTimes == {1, 2}

\* A preview file and, for its image_path, whether the image is on disk.
InitPreview ==
    /\ preview_pc = "ready"
    /\ preview_file \in PreviewFiles
    /\ image_exists \in BOOLEAN
    /\ preview_calls = 0
    /\ preview_log = << >>
    /\ preview_out = NoPreviewCall
    /\ StoryIdle
    /\ RetryIdle
    /\ GenIdle
    /\ CredIdle
    /\ TweetIdle
    /\ BotIdle

\* with open(preview_file, 'r') as f: preview_data = json.load(f)
Loaded(preview_file_) == preview_file_.state = "data"

\* not (not preview_data.get('story') or not preview_data.get('image_path'))
HasRequired_Always(preview_data) == TRUE
HasRequired(preview_data) ==
    Truthy(preview_data.story) /\ Truthy(preview_data.image_path)

\* preview_data['tweet_id'] = tweet_id; ['posted'] = True;
\* ['post_timestamp'] = int(time.time())
UpdatedPreview(preview_data, tweet_id, t) ==
    [preview_data EXCEPT !.tweet_id = tweet_id, !.posted = TRUE,
                         !.post_timestamp = t]

\* open(preview_file, 'w') emptied the file and json.dump did not finish.
PartialPreviewFile == PreviewFile("partial", "None", "None")

\* The preview file after the final write.
WritePreview(preview_file_, updated, write) ==
    IF write = "ok" THEN updated
    ELSE IF write = "dump failed" THEN PartialPreviewFile
    ELSE preview_file_

\* post_from_preview(preview_file): the whole call
PostFromPreview ==
    /\ preview_pc = "ready"
    /\ preview_calls < MaxPreviewCalls
    /\ preview_calls' = preview_calls + 1
    /\ \E out \in PostOutcomes, write \in WriteOutcomes, t \in PostTimes :
        LET postable == /\ Loaded(preview_file)
                        /\ HasRequired(preview_file)
                        /\ image_exists
            tweeted == postable /\ out.ok
        IN  /\ preview_log' = IF postable THEN PostToTwitterCalls(out) ELSE << >>
            /\ preview_file' =
                 IF tweeted
                 THEN WritePreview(preview_file,
                                   UpdatedPreview(preview_file, out.val, t), write)
                 ELSE preview_file
            /\ preview_out' = [call |-> "post_from_preview",
                               returned |-> tweeted /\ write = "ok",
                               before |-> preview_file]
    /\ UNCHANGED << preview_pc, image_exists, notPreviewVars >>

NextPreview == PostFromPreview

SpecPreview == InitPreview /\ [][NextPreview]_vars

\* ----------------------------------------------------------- specifications

\* Both posting paths: run_generation's post_to_twitter and the bot's.
InitPosting == InitGen \/ InitBot

NextPosting == NextGen \/ NextBot

SpecPosting == InitPosting /\ [][NextPosting]_vars

NextStory == GenerateStory \/ GenerateStoryRaises

SpecStory == InitStory /\ [][NextStory]_vars

NextRetry ==
    \E c \in Calls :
        \/ RetryAttemptReturns(c)
        \/ RetryAttemptFails(c)
        \/ RetrySleepDone(c)
        \/ RetrySleepInterrupted(c)
        \/ RetryLoopEnds(c)
        \/ ImageAttemptReturns(c)
        \/ ImageAttemptFails(c)
        \/ ImageSleepDone(c)
        \/ ImageSleepInterrupted(c)
        \/ ImageLoopEnds(c)

SpecRetry == InitRetry /\ [][NextRetry]_vars

SpecConcurrent == InitConcurrent /\ [][NextRetry]_vars

NextImage ==
    \E c \in Calls :
        \/ ImageAttemptReturns(c)
        \/ ImageAttemptFails(c)
        \/ ImageSleepDone(c)
        \/ ImageSleepInterrupted(c)
        \/ ImageLoopEnds(c)

SpecImage == InitImage /\ [][NextImage]_vars

\* ----------------------------------------------- properties: finalization

Returned == sg_pc = "returned"

\* The finalizer's contract takes a limit >= 1.
ValidLimit == max_chars >= 1

\* The specification's truncated_cleanly flag: the code returns no flag, it is
\* read off the path taken (false exactly on the hard cut).
truncated_cleanly == branch # "hard"

Marks == {".", "!", "?"}

\* raw[0:limit] for a limit >= 0, written out
Prefix(s, n) == SubSeq(s, 1, IF n < Len(s) THEN n ELSE Len(s))

\* the last 0-based index of ch in raw[0:limit], -1 when there is none
LastIn(s, n, ch) ==
    LET I == {i \in 1..Len(Prefix(s, n)) : s[i] = ch}
    IN  IF I = {} THEN -1 ELSE Max(I) - 1

\* C1: for every generated text and every limit max_chars >= 1 the story
\* returned by generate_story is at most max_chars long, on each of the four
\* paths (unchanged, cut at '.', cut at '!'/'?', hard cut).
C1_LengthWithinLimit ==
    (Returned /\ ValidLimit) =>
        /\ Len(story) <= max_chars
        /\ branch \in {"unchanged", "period", "punct", "hard"}

\* C1 witness: a text longer than the limit cut at a period that is the last
\* character of the window, so the result is exactly max_chars long.
C1_Witness ==
    /\ Returned /\ ValidLimit
    /\ Len(story_in) > max_chars
    /\ branch = "period"
    /\ Len(story) = max_chars

\* C2: a text no longer than the limit (the empty text and a text without any
\* sentence-ending mark included) is returned unchanged, truncated_cleanly true.
C2_ShortTextUnchanged ==
    (Returned /\ ValidLimit /\ Len(story_in) <= max_chars) =>
        /\ story = story_in
        /\ branch = "unchanged"
        /\ truncated_cleanly

\* C2 witness: a non-empty text exactly as long as the limit that holds no
\* sentence-ending mark.
C2_Witness ==
    /\ Returned /\ ValidLimit
    /\ Len(story_in) = max_chars
    /\ \A i \in 1..Len(story_in) : story_in[i] \notin Marks
    /\ story = story_in

\* C3: when the text is longer than the limit and the last '.' of the window
\* raw[0:limit] is at an index i > 0, the result is exactly raw[0:i+1], cleanly
\* truncated, even when a '!' or '?' follows that period inside the window; the
\* specification's example is cut at index 19.
C3_CutAtLastPeriod ==
    /\ (Returned /\ ValidLimit /\ Len(story_in) > max_chars
            /\ LastIn(story_in, max_chars, ".") > 0) =>
          /\ story = SubSeq(story_in, 1, LastIn(story_in, max_chars, ".") + 1)
          /\ story[Len(story)] = "."
          /\ truncated_cleanly
    /\ (Returned /\ story_in = SolarExample /\ max_chars = 20) =>
          /\ LastIn(story_in, max_chars, ".") = 19
          /\ story = SubSeq(SolarExample, 1, 20)

\* C3 witness: a period at an index > 0 of the window with a '!' or '?' after
\* it, still inside the window.
C3_Witness ==
    /\ Returned /\ ValidLimit
    /\ Len(story_in) > max_chars
    /\ LastIn(story_in, max_chars, ".") > 0
    /\ \E j \in 1..max_chars :
          /\ j - 1 > LastIn(story_in, max_chars, ".")
          /\ story_in[j] \in {"!", "?"}

NoPeriodCase ==
    /\ Returned /\ ValidLimit
    /\ Len(story_in) > max_chars
    /\ LastIn(story_in, max_chars, ".") <= 0

\* the later of the last '!' and the last '?' of the window
LaterOfBangAndQuestion ==
    IF LastIn(story_in, max_chars, "!") > LastIn(story_in, max_chars, "?")
    THEN LastIn(story_in, max_chars, "!")
    ELSE LastIn(story_in, max_chars, "?")

\* C4 as stated: with no '.' at an index > 0 of the window, the text is cut
\* after whichever of the last '!' and the last '?' occurs later.
C4_Original ==
    (NoPeriodCase /\ LaterOfBangAndQuestion > 0) =>
        /\ story = SubSeq(story_in, 1, LaterOfBangAndQuestion + 1)
        /\ truncated_cleanly

\* C4 as amended: with no '.' at an index > 0 of the window, '!' is tried
\* first: the text is cut after the last '!' when that is at an index > 0, and
\* after the last '?' only when no '!' is at an index > 0; cleanly truncated in
\* both cases.
C4_BangBeforeQuestion ==
    /\ (NoPeriodCase /\ LastIn(story_in, max_chars, "!") > 0) =>
          /\ story = SubSeq(story_in, 1, LastIn(story_in, max_chars, "!") + 1)
          /\ truncated_cleanly
    /\ (NoPeriodCase /\ LastIn(story_in, max_chars, "!") <= 0
            /\ LastIn(story_in, max_chars, "?") > 0) =>
          /\ story = SubSeq(story_in, 1, LastIn(story_in, max_chars, "?") + 1)
          /\ truncated_cleanly

\* C4 witness: a window whose last '?' is later than its last '!', both at an
\* index > 0.
C4_Witness ==
    /\ NoPeriodCase
    /\ LastIn(story_in, max_chars, "!") > 0
    /\ LastIn(story_in, max_chars, "?") > LastIn(story_in, max_chars, "!")

\* C5: when the text is longer than the limit and the window holds none of
\* '.', '!', '?' at an index > 0, the result is the hard cut raw[0:limit],
\* exactly limit characters, truncated_cleanly false.
C5_HardCut ==
    (NoPeriodCase /\ LastIn(story_in, max_chars, "!") <= 0
                  /\ LastIn(story_in, max_chars, "?") <= 0) =>
        /\ story = SubSeq(story_in, 1, max_chars)
        /\ Len(story) = max_chars
        /\ ~truncated_cleanly

\* C5 witness: a hard cut of a text that has a sentence-ending mark only
\* beyond the window.
C5_Witness ==
    /\ NoPeriodCase
    /\ branch = "hard"
    /\ \E i \in (max_chars + 1)..Len(story_in) : story_in[i] \in Marks

NoPunctCase ==
    /\ Returned
    /\ response_text = NoPunctExample
    /\ max_chars = 10

\* C6 as stated: finalize_text("No punctuation here at all", 10) returns
\* "No punctu", 10 characters long, truncated_cleanly false.
C6_Original ==
    NoPunctCase =>
        /\ story = << "N","o"," ","p","u","n","c","t","u" >>
        /\ Len(story) = 10
        /\ ~truncated_cleanly

\* C6 as amended: finalize_text("No punctuation here at all", 10) returns
\* "No punctua", the first 10 characters, truncated_cleanly false.
C6_NoPunctExample ==
    NoPunctCase =>
        /\ story = << "N","o"," ","p","u","n","c","t","u","a" >>
        /\ Len(story) = 10
        /\ ~truncated_cleanly

\* C6 witness: the example has been finalized.
C6_Witness == NoPunctCase /\ branch = "hard"

\* C7 as stated: finalizing the returned text again with the same limit gives
\* the same text and the same truncated_cleanly flag.
C7_Original ==
    (Returned /\ ValidLimit) =>
        /\ FinalizeText(story, max_chars).text = story
        /\ (FinalizeText(story, max_chars).branch # "hard") = truncated_cleanly

\* C7 as amended: finalizing the returned text again with the same limit gives
\* the same text, and always by the unchanged path, so the second flag is true:
\* it equals the first flag except after a hard cut, whose flag was false.
C7_IdempotentText ==
    (Returned /\ ValidLimit) =>
        /\ FinalizeText(story, max_chars).text = story
        /\ FinalizeText(story, max_chars).branch = "unchanged"
        /\ (branch # "hard" =>
              (FinalizeText(story, max_chars).branch # "hard") = truncated_cleanly)

\* C7 witness: the first application was a hard cut.
C7_Witness ==
    /\ Returned /\ ValidLimit
    /\ branch = "hard"
    /\ Len(story_in) > Len(story)

\* ------------------------------------------------ properties: retry loops

RECURSIVE Pow(_, _)
Pow(b, n) == IF n = 0 THEN 1 ELSE b * Pow(b, n - 1)

IsInvoke(e) == e.ev = "invoke"
IsSleep(e) == e.ev = "sleep"

\* The invocations of the wrapped operation by call c, and its sleeps, in order.
Invocations(c) == SelectSeq(log[c], IsInvoke)
Sleeps(c) == SelectSeq(log[c], IsSleep)

Done(c) == rpc[c] = "done"

\* Call c is over, was not interrupted, and every invocation it made failed.
AllFailed(c) ==
    /\ Done(c)
    /\ \A j \in 1..Len(log[c]) : log[c][j].ev # "interrupt"
    /\ \A j \in 1..Len(Invocations(c)) : ~Invocations(c)[j].ok

\* The error's message holds the number n, or the message m.
CarriesCount(err, n) == \E i \in 1..Len(err) : err[i] = ToString(n)
CarriesMessage(err, m) == \E i \in 1..Len(err) : err[i] = m

LastMessage(c) == Invocations(c)[Len(Invocations(c))].val

\* C8: when the operation fails on attempts 1..k-1 and first succeeds on
\* attempt k <= max_retries, retry_with_backoff returns that attempt's value
\* after exactly k invocations and k-1 waits, the j-th wait lasting
\* initial_delay * backoff_factor^(j-1) and lying between invocations j and j+1.
C8_SuccessOnAttemptK ==
    \A c \in Calls :
        (/\ fn[c] = "retry_with_backoff"
         /\ Done(c)
         /\ Len(Invocations(c)) >= 1
         /\ Invocations(c)[Len(Invocations(c))].ok) =>
            LET k == Len(Invocations(c))
            IN  /\ k <= policy[c].max_retries
                /\ \A j \in 1..(k - 1) : ~Invocations(c)[j].ok
                /\ outcome[c] = ReturnedValue(Invocations(c)[k].val)
                /\ Len(Sleeps(c)) = k - 1
                /\ \A j \in 1..(k - 1) :
                      Sleeps(c)[j].d =
                          policy[c].initial_delay * Pow(policy[c].backoff_factor, j - 1)
                /\ Len(log[c]) = 2 * k - 1
                /\ \A j \in 1..Len(log[c]) :
                      log[c][j].ev = (IF j % 2 = 1 THEN "invoke" ELSE "sleep")

\* C8 witness: two failures, then a completion; the waits were 1 and then 2.
C8_Witness ==
    /\ fn["c1"] = "retry_with_backoff"
    /\ outcome["c1"] = ReturnedValue("X")
    /\ Len(Invocations("c1")) = 3
    /\ policy["c1"].backoff_factor = 2
    /\ Sleeps("c1")[1].d = 1
    /\ Sleeps("c1")[2].d = 2

\* C9 as stated: when every attempt fails, the operation was invoked exactly
\* max_attempts times and the error raised carries that attempt count and the
\* last error's message, for retry_with_backoff and for generate_image.
C9_Original ==
    \A c \in Calls :
        (AllFailed(c) /\ policy[c].max_retries >= 1) =>
            /\ outcome[c].kind = "raised"
            /\ Len(Invocations(c)) = policy[c].max_retries
            /\ CarriesCount(outcome[c].err, policy[c].max_retries)
            /\ CarriesMessage(outcome[c].err, LastMessage(c))

\* C9 as amended: the operation is never invoked more than max_attempts times;
\* when every attempt fails (max_attempts >= 1) it was invoked exactly
\* max_attempts times and the call raises an error with the last error's
\* message. generate_image's error also carries the attempt count;
\* retry_with_backoff re-raises the last attempt's exception as it is, which
\* carries no attempt count.
C9_ExhaustedAfterMaxAttempts ==
    \A c \in Calls :
        /\ Len(Invocations(c)) <= policy[c].max_retries
        /\ (AllFailed(c) /\ policy[c].max_retries >= 1) =>
              /\ outcome[c].kind = "raised"
              /\ Len(Invocations(c)) = policy[c].max_retries
              /\ CarriesMessage(outcome[c].err, LastMessage(c))
              /\ fn[c] = "generate_image" =>
                    CarriesCount(outcome[c].err, policy[c].max_retries)
              /\ fn[c] = "retry_with_backoff" =>
                    /\ outcome[c].err = << LastMessage(c) >>
                    /\ ~CarriesCount(outcome[c].err, policy[c].max_retries)

\* C9 witness: generate_image gave up after MAX_RETRIES failed attempts.
C9_Witness ==
    /\ fn["c1"] = "generate_image"
    /\ AllFailed("c1")
    /\ Len(Invocations("c1")) = MAX_RETRIES
    /\ outcome["c1"].kind = "raised"

\* C10: when every attempt fails, the failure surfaced reports the error of the
\* last attempt, and no earlier error that differs from it.
C10_LastErrorSurfaced ==
    \A c \in Calls :
        (AllFailed(c) /\ policy[c].max_retries >= 1) =>
            /\ outcome[c].kind = "raised"
            /\ outcome[c].err[Len(outcome[c].err)] = LastMessage(c)
            /\ \A j \in 1..(Len(Invocations(c)) - 1) :
                  Invocations(c)[j].val # LastMessage(c) =>
                      ~CarriesMessage(outcome[c].err, Invocations(c)[j].val)

\* C10 witness: three attempts failed with three different errors.
C10_Witness ==
    /\ fn["c1"] = "retry_with_backoff"
    /\ AllFailed("c1")
    /\ Len(Invocations("c1")) = 3
    /\ Invocations("c1")[1].val # Invocations("c1")[2].val
    /\ Invocations("c1")[2].val # Invocations("c1")[3].val
    /\ Invocations("c1")[1].val # Invocations("c1")[3].val
    /\ outcome["c1"].kind = "raised"

\* Call c was interrupted while it slept.
WasInterrupted(c) == \E j \in 1..Len(log[c]) : log[c][j].ev = "interrupt"

\* The error call c raises when it runs out of attempts.
Exhaustion(c) ==
    IF fn[c] = "generate_image"
    THEN RaisedError(ImageErrorMsg(policy[c].max_retries, last_exception[c]))
    ELSE RaisedError(last_exception[c])

RECURSIVE SumOfWaits(_)
SumOfWaits(w) == IF w = << >> THEN 0 ELSE Head(w).d + SumOfWaits(Tail(w))

RECURSIVE GeometricSum(_, _)
GeometricSum(f, n) == IF n <= 0 THEN 0 ELSE Pow(f, n - 1) + GeometricSum(f, n - 1)

\* C11 as stated: a retrying call returns normally only with the value of a
\* successful invocation of the wrapped operation; for every policy the code
\* accepts (max_retries = 0 included), a call none of whose invocations
\* succeeded raises and never returns a default value.
C11_Original ==
    \A c \in Calls :
        /\ (Done(c) /\ outcome[c].kind = "returned") =>
              \E j \in 1..Len(Invocations(c)) :
                  /\ Invocations(c)[j].ok
                  /\ Invocations(c)[j].val = outcome[c].val
        /\ AllFailed(c) => outcome[c].kind = "raised"

\* C12: an interrupt that arrives while a retrying call waits between attempts
\* ends the wait and the call; the operation is not invoked again, and the call
\* raises KeyboardInterrupt, which is neither the exhaustion error nor an
\* Exception counted as a failed attempt.
C12_InterruptEndsCall ==
    \A c \in Calls :
        \A j \in 1..Len(log[c]) :
            log[c][j].ev = "interrupt" =>
                /\ j = Len(log[c])
                /\ j > 1
                /\ log[c][j - 1].ev = "sleep"
                /\ Done(c)
                /\ outcome[c].kind = "raised"
                /\ outcome[c].type = "KeyboardInterrupt"
                /\ outcome[c] # Exhaustion(c)
                /\ Len(Invocations(c)) = Len(Sleeps(c))
                /\ Len(Invocations(c)) < policy[c].max_retries
                /\ attempt[c] < policy[c].max_retries

\* C12 witness: generate_image was interrupted in its second wait, after two
\* failed attempts.
C12_Witness ==
    /\ fn["c1"] = "generate_image"
    /\ WasInterrupted("c1")
    /\ Len(Invocations("c1")) = 2
    /\ outcome["c1"] = RaisedInterrupt

\* C20: when all max_retries attempts of retry_with_backoff fail, exactly
\* max_retries - 1 waits have occurred, their total is initial_delay *
\* (backoff_factor^0 + ... + backoff_factor^(max_retries - 2)), and no wait
\* follows the final failed attempt.
C20_TotalWait ==
    \A c \in Calls :
        (/\ fn[c] = "retry_with_backoff"
         /\ AllFailed(c)
         /\ policy[c].max_retries >= 1) =>
            /\ Len(Sleeps(c)) = policy[c].max_retries - 1
            /\ SumOfWaits(Sleeps(c)) =
                  policy[c].initial_delay *
                      GeometricSum(policy[c].backoff_factor, policy[c].max_retries - 1)
            /\ log[c][Len(log[c])].ev = "invoke"
            /\ ~log[c][Len(log[c])].ok

\* C20 witness: three failed attempts with initial_delay 1 and factor 2; the
\* two waits took 1 + 2 = 3.
C20_Witness ==
    /\ fn["c1"] = "retry_with_backoff"
    /\ AllFailed("c1")
    /\ policy["c1"] = [max_retries |-> 3, initial_delay |-> 1, backoff_factor |-> 2]
    /\ SumOfWaits(Sleeps("c1")) = 3

\* C13 as stated: a limit < 1 makes the finalizer raise and produce no text;
\* generate_story never returns when max_chars is zero or negative, so it
\* returns neither a string longer than the limit nor the empty string.
C13_Original == max_chars < 1 => sg_pc # "returned"

\* C14 as stated: for every budget the code accepts, the limit put into the
\* generation prompt, max_chars - 15, is at least 1. Stated here for the
\* positive budgets alone, which the code accepts like any other integer.
C14_Original == (sg_pc # "ready" /\ max_chars >= 1) => char_limit >= 1

\* The j-th wait of call c, as its own policy sets it. generate_image waits
\* RETRY_DELAY * attempt, which for the waits MAX_RETRIES allows is the
\* sequence RETRY_DELAY * 2^(j-1).
OwnDelay(c, j) ==
    IF fn[c] = "generate_image"
    THEN RETRY_DELAY * Pow(2, j - 1)
    ELSE policy[c].initial_delay * Pow(policy[c].backoff_factor, j - 1)

\* C15: when two retrying calls run concurrently, under every interleaving
\* each performs at most its own max_retries invocations, its attempt counter
\* counts its own invocations alone, and its j-th wait is its own
\* initial_delay * backoff_factor^(j-1), whatever the other call does.
C15_PrivateCounters ==
    \A c \in Calls :
        /\ Len(Invocations(c)) <= policy[c].max_retries
        /\ attempt[c] <= Len(Invocations(c))
        /\ Len(Invocations(c)) >= 1 => attempt[c] >= Len(Invocations(c)) - 1
        /\ \A j \in 1..Len(Sleeps(c)) : Sleeps(c)[j].d = OwnDelay(c, j)
        /\ (AllFailed(c)) => Len(Invocations(c)) = policy[c].max_retries

\* C15 witness: both calls wait at the same time, each after its own failures,
\* under different policies and with different delays.
C15_Witness ==
    /\ rpc["c1"] = "sleeping"
    /\ rpc["c2"] = "sleeping"
    /\ fn["c1"] = "retry_with_backoff"
    /\ fn["c2"] = "generate_image"
    /\ Len(Sleeps("c1")) = 1
    /\ Len(Sleeps("c2")) = 2
    /\ Sleeps("c1")[1].d # Sleeps("c2")[2].d

\* ------------------------------------------- properties: run_generation

\* C16 as stated: whenever run_generation returns success=True, every
\* requested feature has produced its artifact: story is set if "story" was
\* requested, image_path if "image" was, tweet_id if "post" was requested and
\* preview_only is false.
C16_Original ==
    (gen_pc = "returned" /\ result.success) =>
        /\ "story" \in features => result.story # "None"
        /\ "image" \in features => result.image_path # "None"
        /\ ("post" \in features /\ ~preview_only) => result.tweet_id # "None"

\* ---------------------------------------- properties: CredentialManager

IsSet(key) == key \in DOMAIN environ

Made(name) == cred_pc = "done" /\ cred_out.call = name

\* the value the credentials dict holds under name
Entry(creds, name) ==
    (CHOOSE i \in 1..Len(creds) : creds[i].name = name)

\* C17: get_required_env returns the variable's value when it is set and
\* raises ValueError when it is not; get_twitter_credentials raises ValueError
\* if any of the four required Twitter variables is unset, and an unset bearer
\* token does not make it fail.
C17_RequiredEnv ==
    /\ Made("get_required_env") =>
          IF IsSet(cred_out.key)
          THEN ~cred_out.raised /\ cred_out.val = environ[cred_out.key]
          ELSE /\ cred_out.raised
               /\ cred_out.err.type = "ValueError"
               /\ cred_out.err.msg[Len(cred_out.err.msg)] = cred_out.key
    /\ Made("get_twitter_credentials") =>
          IF \E i \in 1..Len(TwitterRequired) : ~IsSet(TwitterRequired[i])
          THEN cred_out.raised /\ cred_out.err.type = "ValueError"
          ELSE /\ ~cred_out.raised
               /\ cred_out.val[Entry(cred_out.val, "api_key")].value =
                     environ["TWITTER_API_KEY"]
               /\ cred_out.val[Entry(cred_out.val, "api_secret")].value =
                     environ["TWITTER_API_SECRET"]
               /\ cred_out.val[Entry(cred_out.val, "access_token")].value =
                     environ["TWITTER_ACCESS_TOKEN"]
               /\ cred_out.val[Entry(cred_out.val, "access_token_secret")].value =
                     environ["TWITTER_ACCESS_TOKEN_SECRET"]
               /\ cred_out.val[Entry(cred_out.val, "bearer_token")].value =
                     (IF IsSet("TWITTER_BEARER_TOKEN")
                      THEN environ["TWITTER_BEARER_TOKEN"] ELSE "None")

\* C17 witness: the four required variables are set, the bearer token is not,
\* and get_twitter_credentials returned a dict whose bearer_token is None.
C17_Witness ==
    /\ Made("get_twitter_credentials")
    /\ ~cred_out.raised
    /\ ~IsSet("TWITTER_BEARER_TOKEN")
    /\ cred_out.val[Entry(cred_out.val, "bearer_token")].value = "None"
    /\ cred_out.val[Entry(cred_out.val, "api_key")].value = "a"
    /\ cred_out.val[Entry(cred_out.val, "api_secret")].value = "b"

\* The config file's credentials_path when the file yields a non-empty one.
ConfigYieldsPath == config.shape = "credentials_path" /\ Truthy(config.credentials_path)

\* C18 as stated: get_google_cloud_credentials returns the
\* GOOGLE_APPLICATION_CREDENTIALS value whenever it is set, otherwise the
\* credentials_path of the loaded config file, and raises ValueError when
\* neither yields a non-empty path.
C18_Original ==
    Made("get_google_cloud_credentials") =>
        IF IsSet("GOOGLE_APPLICATION_CREDENTIALS")
              /\ Truthy(environ["GOOGLE_APPLICATION_CREDENTIALS"])
        THEN /\ ~cred_out.raised
             /\ cred_out.val.credentials_path = environ["GOOGLE_APPLICATION_CREDENTIALS"]
        ELSE IF ConfigYieldsPath
        THEN /\ ~cred_out.raised
             /\ cred_out.val.credentials_path = config.credentials_path
        ELSE cred_out.raised /\ cred_out.err.type = "ValueError"

\* -------------------------------------------- properties: TwitterClient

Posted == tw.call = "post_tweet"

\* The API answered with a tweet id: a JSON body whose data holds a non-empty id.
AnsweredWithId ==
    /\ tw.response.sent
    /\ tw.response.json = "data"
    /\ tw.response.id # "None"
    /\ tw.response.id # ""

\* C19: post_tweet returns a result only when the API answered 200 or 201
\* with a tweet id; the result then holds that id, the API's text and the
\* media_ids supplied ([] when none was supplied). For any other status, or a
\* response without an id, it raises and returns nothing.
C19_PostTweetResult ==
    Posted =>
        IF AnsweredWithId /\ tw.response.status_code \in {200, 201}
        THEN /\ ~tw.raised
             /\ tw.val.id = tw.response.id
             /\ tw.val.text = tw.response.text
             /\ tw.val.media_ids = (IF tw.media_ids.none THEN << >> ELSE tw.media_ids.list)
        ELSE /\ tw.raised
             /\ tw.val = "None"
             /\ tw.err.type = "Exception"

\* C19 witness: the API answered 201 with id t1, and post_tweet returned it
\* with the one media id supplied.
C19_Witness ==
    /\ Posted
    /\ ~tw.raised
    /\ tw.response.status_code = 201
    /\ tw.val.id = "t1"
    /\ tw.val.text = "hello"
    /\ tw.val.media_ids = << "m1" >>

\* ------------------------------------- properties: retry loops, continued

\* C21 as stated: with max_retries = 1 the operation is invoked exactly once,
\* no wait occurs, and a failure of that single attempt is surfaced at once as
\* an exhaustion error that carries the attempt count 1.
C21_Original ==
    \A c \in Calls :
        (/\ fn[c] = "retry_with_backoff"
         /\ policy[c].max_retries = 1
         /\ Done(c)) =>
            /\ Len(Invocations(c)) = 1
            /\ Sleeps(c) = << >>
            /\ ~Invocations(c)[1].ok =>
                  /\ outcome[c].kind = "raised"
                  /\ CarriesCount(outcome[c].err, 1)

\* C21 as amended: with max_retries = 1 the operation is invoked exactly once
\* and no wait occurs; a failure of that single attempt is surfaced at once by
\* re-raising that attempt's exception as it is, which carries its message and
\* no attempt count.
C21_SingleAttempt ==
    \A c \in Calls :
        (/\ fn[c] = "retry_with_backoff"
         /\ policy[c].max_retries = 1) =>
            /\ Len(Invocations(c)) <= 1
            /\ Sleeps(c) = << >>
            /\ rpc[c] # "sleeping"
            /\ Done(c) =>
                  /\ Len(log[c]) = 1
                  /\ log[c][1].ev = "invoke"
                  /\ ~log[c][1].ok =>
                        /\ outcome[c] = RaisedError(Exc(log[c][1].val))
                        /\ ~CarriesCount(outcome[c].err, 1)

\* C21 witness: the single attempt failed and the call has raised.
C21_Witness ==
    /\ fn["c1"] = "retry_with_backoff"
    /\ policy["c1"].max_retries = 1
    /\ Done("c1")
    /\ ~Invocations("c1")[1].ok
    /\ outcome["c1"].kind = "raised"

\* C22 as stated: generate_image backs off exponentially for any MAX_RETRIES:
\* the first wait is RETRY_DELAY and each later wait is the previous wait
\* times one and the same factor.
C22_Original ==
    \A c \in Calls :
        fn[c] = "generate_image" =>
            /\ Len(Sleeps(c)) >= 1 => Sleeps(c)[1].d = RETRY_DELAY
            /\ \A k \in 2..(Len(Sleeps(c)) - 1) :
                  Sleeps(c)[k + 1].d * Sleeps(c)[k - 1].d =
                      Sleeps(c)[k].d * Sleeps(c)[k].d

\* C30: retry_with_backoff retries only when generate_text raises. An empty
\* completion (response.text empty or None) is no failure: generate_text
\* returns "", and retry_with_backoff returns "" after that one invocation,
\* with no wait and no further attempt.
C30_EmptyCompletionReturned ==
    \A c \in Calls :
        fn[c] = "retry_with_backoff" =>
            /\ \A j \in 1..Len(log[c]) :
                  (log[c][j].ev = "invoke" /\ log[c][j].ok) =>
                      /\ j = Len(log[c])
                      /\ log[c][j].val # "None"
                      /\ outcome[c] = ReturnedValue(log[c][j].val)
                      /\ Done(c)
            /\ \A j \in 1..(Len(log[c]) - 1) :
                  log[c][j].ev = "invoke" => ~log[c][j].ok

\* C30 witness: the first invocation gave an empty completion and the call
\* returned "" with nothing else in its log.
C30_Witness ==
    /\ fn["c1"] = "retry_with_backoff"
    /\ policy["c1"].max_retries = 3
    /\ Done("c1")
    /\ Len(log["c1"]) = 1
    /\ log["c1"][1].ok
    /\ outcome["c1"] = ReturnedValue("")

\* ------------------------------------- properties: finalization, continued

\* The only sentence-ending marks of the window sit at index 0.
MarksOnlyAtIndexZero ==
    /\ Returned /\ ValidLimit
    /\ Len(story_in) > max_chars
    /\ story_in[1] \in Marks
    /\ \A i \in 2..Len(Prefix(story_in, max_chars)) : story_in[i] \notin Marks

\* C23 as stated: a mark at index 0 of the window is treated as not found; when
\* the only marks of the window sit at index 0 the result is the hard cut
\* raw[0:limit] and never the one-character string.
C23_Original ==
    MarksOnlyAtIndexZero =>
        /\ story = SubSeq(story_in, 1, max_chars)
        /\ story # SubSeq(story_in, 1, 1)

\* C23 as amended: a mark at index 0 of the window is treated as not found;
\* when the only marks of the window sit at index 0 the result is the hard cut
\* raw[0:limit], not cleanly truncated. It is the one-character string only
\* when limit = 1, where the hard cut itself is one character long.
C23_MarkAtZeroNotFound ==
    MarksOnlyAtIndexZero =>
        /\ story = SubSeq(story_in, 1, max_chars)
        /\ Len(story) = max_chars
        /\ branch = "hard"
        /\ ~truncated_cleanly
        /\ (story = SubSeq(story_in, 1, 1)) <=> (max_chars = 1)

\* C23 witness: a text that opens with a mark, has no other mark in a window
\* of at least two characters, and was hard cut.
C23_Witness ==
    /\ MarksOnlyAtIndexZero
    /\ max_chars >= 2
    /\ story_in[1] = "!"
    /\ Len(story) = max_chars

\* ---------------------------------- properties: TwitterClient, continued

\* C27: the text post_tweet sends to the API is never longer than 280
\* characters: a text of at most 280 characters is sent unchanged, a longer one
\* is replaced by its first 277 characters followed by "...", 280 characters.
C27_SentTextWithinLimit ==
    Posted =>
        /\ Len(tw.payload.text) <= 280
        /\ Len(tw.text) <= 280 => tw.payload.text = tw.text
        /\ Len(tw.text) > 280 =>
              /\ Len(tw.payload.text) = 280
              /\ SubSeq(tw.payload.text, 1, 277) = SubSeq(tw.text, 1, 277)
              /\ SubSeq(tw.payload.text, 278, 280) = << ".", ".", "." >>

\* C27 witness: a text of 281 characters was sent as 280, and a request was made.
C27_Witness ==
    /\ Posted
    /\ Len(tw.text) = 281
    /\ Len(tw.payload.text) = 280
    /\ tw.payload.text[277] = "a"
    /\ tw.response.sent

\* C28 as stated: the rate limiter admits at most max_requests API calls per
\* window: the calls _wait_for_rate_limit lets proceed between two consecutive
\* resets of reset_time never exceed max_requests, and remaining_requests
\* stays within 0..max_requests.
C28_Original ==
    tw_pc # "idle" =>
        /\ admitted <= rate_limit.max_requests
        /\ rate_limit_info.remaining_requests \in 0..rate_limit.max_requests

\* ------------------------------- properties: run_generation, continued

\* The positions of the log at which name was called, and those at which it
\* returned.
CallsOf(l, name) == { j \in 1..Len(l) : l[j].call = name }
ReturnsOf(l, name) == { j \in CallsOf(l, name) : l[j].ok }

\* post_to_twitter is invoked only after generate_story and generate_image
\* have both returned in this run, only with "post" among the features and
\* preview_only false; with preview_only no tweet is ever posted.
PostOnlyAfterStoryAndImage ==
    /\ \A j \in CallsOf(gen_log, "post_to_twitter") :
          /\ \E i \in ReturnsOf(gen_log, "generate_story") : i < j
          /\ \E i \in ReturnsOf(gen_log, "generate_image") : i < j
          /\ "post" \in features
          /\ ~preview_only
    /\ preview_only =>
          /\ CallsOf(gen_log, "post_to_twitter") = {}
          /\ CallsOf(gen_log, "upload_media") = {}
          /\ CallsOf(gen_log, "post_tweet") = {}
          /\ result.tweet_id = "None"

PostingFailed ==
    /\ bot_out.call = "post_to_twitter"
    /\ bot_out.stage \in {"upload", "tweet"}

\* C26: a post_data made by generate_post has posted true exactly when its
\* tweet_id is set, whatever calls of generate_post and post_to_twitter came
\* before and however they ended; a post_to_twitter call that failed at the
\* media upload or at the tweet leaves the post_data as it was, so an unposted
\* one keeps posted = False and tweet_id = None.
C26_PostedIffTweetId ==
    /\ post_data.exists => (post_data.posted <=> Truthy(post_data.tweet_id))
    /\ PostingFailed =>
        /\ post_data = bot_out.before
        /\ ~bot_out.before.posted =>
            (~post_data.posted /\ post_data.tweet_id = "None")

\* A second call failed at the tweet on a post_data that was never posted.
C26_Witness ==
    /\ bot_calls >= 2
    /\ bot_out.call = "post_to_twitter"
    /\ bot_out.stage = "tweet"
    /\ post_data.exists
    /\ ~post_data.posted
    /\ post_data.tweet_id = "None"

\* ------------------------------------------------- properties: posting order

\* In a log of calls, every post_tweet comes right after an upload_media that
\* returned and is given exactly the media id it returned, and no post_tweet
\* follows an upload_media that raised.
UploadThenTweet(l) ==
    /\ \A j \in 1..Len(l) :
        l[j].call = "post_tweet" =>
            /\ j > 1
            /\ l[j - 1].call = "upload_media"
            /\ l[j - 1].ok
            /\ l[j].arg = << l[j - 1].val >>
    /\ \A j \in 1..Len(l) :
        (l[j].call = "upload_media" /\ ~l[j].ok) =>
            \A k \in (j + 1)..Len(l) : l[k].call # "post_tweet"

\* C25: in both posting paths (post_to_twitter of the generator script and
\* TwitterBot.post_to_twitter) post_tweet is called only after upload_media
\* returned, with media_ids holding exactly the id upload_media returned, and
\* is never called when the upload failed.
C25_TweetOnlyAfterUpload ==
    /\ UploadThenTweet(gen_log)
    /\ UploadThenTweet(bot_log)

\* run_generation posted a tweet carrying the media id "m2" of its upload.
C25_Witness ==
    \E j \in 1..Len(gen_log) :
        /\ gen_log[j].call = "post_tweet"
        /\ gen_log[j].ok
        /\ gen_log[j].arg = << "m2" >>

\* ------------------------------------------- properties: post_from_preview

PreviewCalled == preview_out.call = "post_from_preview"

\* The file the last call started from lacks story or image_path, or cannot be
\* loaded at all.
RequiredMissing ==
    \/ preview_out.before.state # "data"
    \/ ~Truthy(preview_out.before.story)
    \/ ~Truthy(preview_out.before.image_path)

\* In the last call post_to_twitter was invoked and returned the tweet.
TweetPosted == ReturnsOf(preview_log, "post_to_twitter") # {}

\* The file holds what the call started from plus tweet_id, posted = True and
\* a post_timestamp.
RewrittenWithTweet ==
    \E j \in ReturnsOf(preview_log, "post_tweet"), t \in PostTimes :
        preview_file = [preview_out.before EXCEPT !.tweet_id = preview_log[j].val,
                                                  !.posted = TRUE,
                                                  !.post_timestamp = t]

\* C29: when story or image_path is missing from the preview file, or the image
\* file is absent, post_to_twitter is not called; whenever it is not called or
\* raises, post_from_preview leaves the preview file as it was and returns
\* False. The file differs from what it was only after post_to_twitter
\* returned, and True is returned only with the file rewritten with tweet_id,
\* posted = True and post_timestamp.
C29_FileRewrittenOnlyAfterTweet ==
    PreviewCalled =>
        /\ (RequiredMissing \/ ~image_exists) => CallsOf(preview_log, "post_to_twitter") = {}
        /\ ~TweetPosted => (preview_file = preview_out.before /\ ~preview_out.returned)
        /\ preview_file # preview_out.before => TweetPosted
        /\ preview_out.returned => (TweetPosted /\ RewrittenWithTweet)

\* A call on a file with an empty story returned False and left it alone, the
\* image being on disk.
C29_Witness ==
    /\ PreviewCalled
    /\ preview_out.before.state = "data"
    /\ preview_out.before.story = ""
    /\ Truthy(preview_out.before.image_path)
    /\ image_exists
    /\ ~preview_out.returned
    /\ preview_file = preview_out.before

====
